---- MODULE Spec2Model ----
(***************************************************************************)
(* A model of leveldb's table writer (table/table_builder.cc) and of the   *)
(* two-level iterator that reads what it writes                            *)
(* (table/two_level_iterator.cc).                                          *)
(*                                                                         *)
(* Keys are the integers 1..MaxKey+1 under the usual order (the            *)
(* comparator); a value is an integer that is also its length in bytes.    *)
(* The file is the sequence of the Append calls that succeeded.            *)
(***************************************************************************)
EXTENDS Integers, Sequences, FiniteSets, TLC

VARIABLES
    rep_,     \* TableBuilder::rep_, the builder's Rep (with the file it writes)
    port,     \* the port layer: whether Snappy is compiled in, what it outputs
    calls,    \* history: the arguments of the Add calls made, and Finish's result
    iter,     \* the TwoLevelIterator (with its index iterator and its table)
    hist      \* history: the iterator's last operation and the entries yielded

vars == <<rep_, port, calls, iter, hist>>

----------------------------------------------------------------------------
(* Bounds of the model *)

MaxKey == 3            \* user keys are 1..MaxKey, so a build adds MaxKey pairs at most
MaxBlocks == 3         \* index entries of a table the iterator is given
MaxLen == 17           \* lengths of a block and of its compressed form

Keys == 1..MaxKey
Values == {1, 2}                \* a value is its own length: short or long
AllKeys == 1..(MaxKey + 1)     \* keys a comparator may return as separators

----------------------------------------------------------------------------
(* Collaborators of the builder: format.h, block_builder.h, filter_block.h, *)
(* env.h, port.h, comparator.h                                              *)

kBlockTrailerSize == 5
AppendsInFlush == 2            \* Append calls of one WriteRawBlock
AppendsInFinish == 9           \* Append calls of one Finish, at most
kEncodedLength == 48           \* Footer::kEncodedLength
BlockOverhead == 4             \* a block's restart array: num_restarts

kNoCompression == 0
kSnappyCompression == 1

OK == [ok |-> TRUE, code |-> "OK", at |-> 0]
IOError(n) == [ok |-> FALSE, code |-> "IOError", at |-> n]
Corruption == [ok |-> FALSE, code |-> "Corruption", at |-> 0]
\* the Corruption that reading the n-th block of a table reports
CorruptionAt(n) == [ok |-> FALSE, code |-> "Corruption", at |-> n]
InvalidArgument == [ok |-> FALSE, code |-> "InvalidArgument", at |-> 0]

\* Comparator::Compare on the model's keys
Compare(a, b) == IF a < b THEN -1 ELSE IF a = b THEN 0 ELSE 1

\* Comparator::FindShortestSeparator(&start, limit): the keys it may leave in start
FindShortestSeparator(start, limit) ==
    IF start < limit THEN start..(limit - 1) ELSE {start}

\* Comparator::FindShortSuccessor(&key): the keys it may leave in key
FindShortSuccessor(key) == {k \in AllKeys : k >= key} \cup {key}

\* BlockHandle: a default-constructed handle holds ~0 in both fields
NullHandle == [offset |-> -1, size |-> -1]

\* BlockHandle::EncodeTo: the two numbers, in this order
EncodeTo(h) == <<h.offset, h.size>>

RECURSIVE SumBytes(_)
SumBytes(entries) ==
    IF entries = <<>> THEN 0
    ELSE (1 + entries[1].bytes) + SumBytes(Tail(entries))

\* BlockBuilder::CurrentSizeEstimate: the entries and the restart array
CurrentSizeEstimate(block) == SumBytes(block) + BlockOverhead

\* an entry of a data block, an index block or a metaindex block
Entry(key, value, bytes) == [key |-> key, value |-> value, bytes |-> bytes]

\* BlockBuilder::Finish: the block's contents
BlockFinish(name, block) ==
    [kind |-> name, entries |-> block, type |-> kNoCompression,
     size |-> CurrentSizeEstimate(block)]

\* FilterBlockBuilder: the calls it has received; Finish gives one buffer
FilterStartBlock(fb, off) ==
    IF fb.present THEN [fb EXCEPT !.log = Append(@, <<"StartBlock", off>>)] ELSE fb
FilterAddKey(fb, key) ==
    IF fb.present THEN [fb EXCEPT !.log = Append(@, <<"AddKey", key>>)] ELSE fb
FilterFinish(fb) ==
    [kind |-> "filter_block", entries |-> fb.log, type |-> kNoCompression,
     size |-> Len(fb.log) + 1]

\* the port layer of a build: Snappy compiled in or not; length is the
\* length of its output where that is given, -1 where it depends on the block
Port(snappy, length) == [snappy |-> snappy, length |-> length]

\* port::Snappy_Compress: fails when Snappy is not compiled in; otherwise
\* halves a block of two entries or more and gains nothing on a smaller one
Snappy_Compress(raw) ==
    [ok |-> port.snappy,
     out |-> [raw EXCEPT !.type = kSnappyCompression,
                         !.size = IF port.length >= 0 THEN port.length
                                  ELSE IF Len(raw.entries) >= 2
                                  THEN raw.size \div 2 ELSE raw.size]]

\* WritableFile::Append: the call numbered fail_append from now fails and
\* appends nothing; every other call appends data
FileAppend(f, data) ==
    IF f.fail_append = 1
    THEN [f EXCEPT !.ncalls = @ + 1, !.fail_append = 0,
                   !.last = IOError(f.ncalls + 1)]
    ELSE [f EXCEPT !.ncalls = @ + 1, !.appends = Append(@, data),
                   !.fail_append = IF @ > 1 THEN @ - 1 ELSE 0,
                   !.last = OK]

\* WritableFile::Flush
FileFlush(f) ==
    IF f.fail_flush
    THEN [f EXCEPT !.ncalls = @ + 1, !.fail_flush = FALSE,
                   !.last = IOError(f.ncalls + 1)]
    ELSE [f EXCEPT !.ncalls = @ + 1, !.flushes = @ + 1, !.last = OK]

\* what the file may do during one call of the builder that appends at most
\* n times: fail one of the Append calls, or fail Flush, or neither
Faults(n) ==
    {[append |-> a, flush |-> FALSE] : a \in 0..n}
        \cup {[append |-> 0, flush |-> TRUE]}
WithFaults(r, ft) ==
    [r EXCEPT !.file.fail_append = ft.append, !.file.fail_flush = ft.flush]
NoFaults(r) ==
    [r EXCEPT !.file.fail_append = 0, !.file.fail_flush = FALSE,
              !.null_name = "crash"]

\* what a call of Name() through a null FilterPolicy pointer does in this
\* build: the process dies there, or the call returns some bytes
NullCalls == {"crash", "garbage"}
WithNullCall(r, outcome) == [r EXCEPT !.null_name = outcome]

----------------------------------------------------------------------------
(* TableBuilder *)

BlockSizes == {1, 7, 12}
Policies == {"nullptr", "bloom"}
Comparators == {"bytewise", "reverse"}

Options(block_size, compression, filter_policy) ==
    [comparator |-> "bytewise", block_size |-> block_size,
     block_restart_interval |-> 16, compression |-> compression,
     filter_policy |-> filter_policy]

\* the Options a caller hands to ChangeOptions: a copy of the builder's with
\* any filter policy, or one with another comparator and, with it, any
\* filter policy and the smallest block size
ChangedOptions(options) ==
    {[options EXCEPT !.filter_policy = filter_policy] :
        filter_policy \in Policies}
    \cup
    {[options EXCEPT !.filter_policy = filter_policy,
                     !.block_size = block_size,
                     !.comparator = comparator] :
        filter_policy \in Policies,
        block_size \in {1},
        comparator \in Comparators \ {options.comparator}}

\* TableBuilder::Rep::Rep and TableBuilder::TableBuilder
NewRep(opt) ==
    LET fb == [present |-> opt.filter_policy # "nullptr",
               policy |-> opt.filter_policy, log |-> <<>>]
    IN [options |-> opt,
        index_block_options |-> [opt EXCEPT !.block_restart_interval = 1],
        file |-> [appends |-> <<>>, flushes |-> 0, ncalls |-> 0,
                  fail_append |-> 0, fail_flush |-> FALSE, last |-> OK],
        offset |-> 0,
        status |-> OK,
        data_block |-> <<>>,
        index_block |-> <<>>,
        last_key |-> 0,
        num_entries |-> 0,
        closed |-> FALSE,
        filter_block |-> FilterStartBlock(fb, 0),
        pending_index_entry |-> FALSE,
        pending_handle |-> NullHandle,
        crashed |-> FALSE,
        null_name |-> "crash"]

\* TableBuilder::ok
ok(r) == r.status.ok

\* ChangeOptions that does not force the index block's restart interval
ChangeOptionsKeepsInterval(r, options) ==
    IF options.comparator # r.options.comparator
    THEN [r |-> r, status |-> InvalidArgument]
    ELSE [r |-> [r EXCEPT !.options = options,
                          !.index_block_options = options],
          status |-> OK]

\* TableBuilder::ChangeOptions: the builder after it, and what it returns
ChangeOptions(r, options) ==
    IF options.comparator # r.options.comparator
    THEN [r |-> r, status |-> InvalidArgument]
    ELSE [r |-> [r EXCEPT !.options = options,
                          !.index_block_options =
                              [options EXCEPT !.block_restart_interval = 1]],
          status |-> OK]

\* WriteRawBlock that advances offset by the payload and not by the trailer
WriteRawBlockSkipsTrailer(r, block_contents, type) ==
    LET handle == [offset |-> r.offset, size |-> block_contents.size]
        f1 == FileAppend(r.file, block_contents)
        trailer == [kind |-> "trailer", entries |-> <<>>, type |-> type,
                    size |-> kBlockTrailerSize]
        f2 == FileAppend(f1, trailer)
    IN  IF ~f1.last.ok
        THEN [r |-> [r EXCEPT !.file = f1, !.status = f1.last], handle |-> handle]
        ELSE IF ~f2.last.ok
        THEN [r |-> [r EXCEPT !.file = f2, !.status = f2.last], handle |-> handle]
        ELSE [r |-> [r EXCEPT !.file = f2, !.status = f2.last,
                              !.offset = @ + block_contents.size],
              handle |-> handle]

\* WriteRawBlock that advances offset once the payload is appended, whether
\* or not the Append of the trailer succeeds
WriteRawBlockCountsFailedTrailer(r, block_contents, type) ==
    LET handle == [offset |-> r.offset, size |-> block_contents.size]
        f1 == FileAppend(r.file, block_contents)
        trailer == [kind |-> "trailer", entries |-> <<>>, type |-> type,
                    size |-> kBlockTrailerSize]
        f2 == FileAppend(f1, trailer)
    IN  IF ~f1.last.ok
        THEN [r |-> [r EXCEPT !.file = f1, !.status = f1.last], handle |-> handle]
        ELSE [r |-> [r EXCEPT !.file = f2, !.status = f2.last,
                              !.offset = @ + block_contents.size + kBlockTrailerSize],
              handle |-> handle]

\* TableBuilder::WriteRawBlock: the builder after it, and the handle it set
WriteRawBlock(r, block_contents, type) ==
    LET handle == [offset |-> r.offset, size |-> block_contents.size]
        f1 == FileAppend(r.file, block_contents)
        trailer == [kind |-> "trailer", entries |-> <<>>, type |-> type,
                    size |-> kBlockTrailerSize]
        f2 == FileAppend(f1, trailer)
    IN  IF ~f1.last.ok
        THEN [r |-> [r EXCEPT !.file = f1, !.status = f1.last], handle |-> handle]
        ELSE IF ~f2.last.ok
        THEN [r |-> [r EXCEPT !.file = f2, !.status = f2.last], handle |-> handle]
        ELSE [r |-> [r EXCEPT !.file = f2, !.status = f2.last,
                              !.offset = @ + block_contents.size + kBlockTrailerSize],
              handle |-> handle]

\* BlockBuilder::Reset on the block WriteBlock was given
Reset(r, name) ==
    IF name = "data_block" THEN [r EXCEPT !.data_block = <<>>]
    ELSE IF name = "index_block" THEN [r EXCEPT !.index_block = <<>>]
    ELSE r

\* the test against 7/8 of the raw length rounded down
SavesEnoughRoundsDown(compressed_size, raw_size) ==
    compressed_size < (raw_size * 7) \div 8

\* WriteBlock's test "compressed->size() < raw.size() - (raw.size() / 8u)"
SavesEnough(compressed_size, raw_size) ==
    compressed_size < raw_size - (raw_size \div 8)

\* TableBuilder::WriteBlock
WriteBlock(r, name, block) ==
    LET raw == BlockFinish(name, block)
        compressed == Snappy_Compress(raw)
        use == /\ r.options.compression = kSnappyCompression
               /\ compressed.ok
               /\ SavesEnough(compressed.out.size, raw.size)
        block_contents == IF use THEN compressed.out ELSE raw
        type == IF use THEN kSnappyCompression ELSE kNoCompression
        w == WriteRawBlock(r, block_contents, type)
    IN  [r |-> Reset(w.r, name), handle |-> w.handle]

\* Flush that sets pending_index_entry whether or not the block was written
FlushAlwaysPending(r) ==
    IF ~ok(r) THEN r
    ELSE IF r.data_block = <<>> THEN r
    ELSE
      LET w == WriteBlock(r, "data_block", r.data_block)
          r1 == [w.r EXCEPT !.pending_handle = w.handle,
                            !.pending_index_entry = TRUE]
          f == FileFlush(r1.file)
          r2 == IF ok(r1)
                THEN [r1 EXCEPT !.file = f, !.status = f.last]
                ELSE r1
      IN  [r2 EXCEPT !.filter_block = FilterStartBlock(@, r2.offset)]

\* Flush that tells the filter of the new block before it writes the old
\* one, with the offset the old one starts at
FlushStartsBlockEarly(r) ==
    IF ~ok(r) THEN r
    ELSE IF r.data_block = <<>> THEN r
    ELSE
      LET w == WriteBlock(r, "data_block", r.data_block)
          r1 == [w.r EXCEPT !.pending_handle = w.handle]
          f == FileFlush(r1.file)
          r2 == IF ok(r1)
                THEN [r1 EXCEPT !.pending_index_entry = TRUE,
                                !.file = f, !.status = f.last]
                ELSE r1
      IN  [r2 EXCEPT !.filter_block = FilterStartBlock(@, r.offset)]

\* Flush without the return on an empty data block
FlushWritesEmptyBlock(r) ==
    IF ~ok(r) THEN r
    ELSE
      LET w == WriteBlock(r, "data_block", r.data_block)
          r1 == [w.r EXCEPT !.pending_handle = w.handle]
          f == FileFlush(r1.file)
          r2 == IF ok(r1)
                THEN [r1 EXCEPT !.pending_index_entry = TRUE,
                                !.file = f, !.status = f.last]
                ELSE r1
      IN  [r2 EXCEPT !.filter_block = FilterStartBlock(@, r2.offset)]

\* TableBuilder::Flush
Flush(r) ==
    IF ~ok(r) THEN r
    ELSE IF r.data_block = <<>> THEN r
    ELSE
      LET w == WriteBlock(r, "data_block", r.data_block)
          r1 == [w.r EXCEPT !.pending_handle = w.handle]
          f == FileFlush(r1.file)
          r2 == IF ok(r1)
                THEN [r1 EXCEPT !.pending_index_entry = TRUE,
                                !.file = f, !.status = f.last]
                ELSE r1
      IN  [r2 EXCEPT !.filter_block = FilterStartBlock(@, r2.offset)]

\* Add that assigns last_key before it emits the pending index entry, so the
\* entry's key is the first key of the next block
AddIndexesNextKey(r, key, value, sep) ==
    IF ~ok(r) THEN r
    ELSE
      LET r1 == IF r.pending_index_entry
                THEN LET s == [r EXCEPT !.last_key = key]
                     IN [s EXCEPT
                           !.index_block =
                               Append(@, Entry(s.last_key,
                                               EncodeTo(s.pending_handle), 2)),
                           !.pending_index_entry = FALSE]
                ELSE r
          r2 == [r1 EXCEPT !.filter_block = FilterAddKey(@, key)]
          r3 == [r2 EXCEPT !.last_key = key,
                           !.num_entries = @ + 1,
                           !.data_block = Append(@, Entry(key, value, value))]
      IN  IF CurrentSizeEstimate(r3.data_block) >= r3.options.block_size
          THEN Flush(r3)
          ELSE r3

\* Add without the "if (!ok()) return" at its head
AddIgnoresStatus(r, key, value, sep) ==
    LET r1 == IF r.pending_index_entry
              THEN LET s == [r EXCEPT !.last_key = sep]
                   IN [s EXCEPT
                         !.index_block =
                             Append(@, Entry(s.last_key,
                                             EncodeTo(s.pending_handle), 2)),
                         !.pending_index_entry = FALSE]
              ELSE r
        r2 == [r1 EXCEPT !.filter_block = FilterAddKey(@, key)]
        r3 == [r2 EXCEPT !.last_key = key,
                         !.num_entries = @ + 1,
                         !.data_block = Append(@, Entry(key, value, value))]
    IN  IF CurrentSizeEstimate(r3.data_block) >= r3.options.block_size
        THEN Flush(r3)
        ELSE r3

\* Add that leaves pending_index_entry set after it has added the index entry
AddKeepsPending(r, key, value, sep) ==
    IF ~ok(r) THEN r
    ELSE
      LET r1 == IF r.pending_index_entry
                THEN LET s == [r EXCEPT !.last_key = sep]
                     IN [s EXCEPT
                           !.index_block =
                               Append(@, Entry(s.last_key,
                                               EncodeTo(s.pending_handle), 2))]
                ELSE r
          r2 == [r1 EXCEPT !.filter_block = FilterAddKey(@, key)]
          r3 == [r2 EXCEPT !.last_key = key,
                           !.num_entries = @ + 1,
                           !.data_block = Append(@, Entry(key, value, value))]
      IN  IF CurrentSizeEstimate(r3.data_block) >= r3.options.block_size
          THEN Flush(r3)
          ELSE r3

\* TableBuilder::Add; sep is what FindShortestSeparator leaves in last_key
Add(r, key, value, sep) ==
    IF ~ok(r) THEN r
    ELSE
      LET r1 == IF r.pending_index_entry
                THEN LET s == [r EXCEPT !.last_key = sep]
                     IN [s EXCEPT
                           !.index_block =
                               Append(@, Entry(s.last_key,
                                               EncodeTo(s.pending_handle), 2)),
                           !.pending_index_entry = FALSE]
                ELSE r
          r2 == [r1 EXCEPT !.filter_block = FilterAddKey(@, key)]
          r3 == [r2 EXCEPT !.last_key = key,
                           !.num_entries = @ + 1,
                           !.data_block = Append(@, Entry(key, value, value))]
      IN  IF CurrentSizeEstimate(r3.data_block) >= r3.options.block_size
          THEN Flush(r3)
          ELSE r3

\* the footer Finish encodes
FooterOf(metaindex_handle, index_handle) ==
    [kind |-> "footer",
     entries |-> <<EncodeTo(metaindex_handle), EncodeTo(index_handle)>>,
     type |-> kNoCompression, size |-> kEncodedLength]

\* Finish, "Write filter block"; fin holds the builder and Finish's three
\* local handles
WriteFilterBlock(fin) ==
    IF ok(fin.r) /\ fin.r.filter_block.present
    THEN LET w == WriteRawBlock(fin.r, FilterFinish(fin.r.filter_block),
                                kNoCompression)
         IN [fin EXCEPT !.r = w.r, !.filter_block_handle = w.handle]
    ELSE fin

\* FilterPolicy::Name through options.filter_policy; through a null pointer
\* it is undefined, and here returns some bytes when it returns at all
Name(r) ==
    IF r.options.filter_policy = "nullptr" THEN "garbage"
    ELSE r.options.filter_policy

\* Finish, "Write metaindex block"; the process dies in it when it calls
\* Name() through a null options.filter_policy and the build crashes there
WriteMetaindexBlock(fin) ==
    IF ok(fin.r) /\ ~fin.r.crashed
    THEN IF /\ fin.r.filter_block.present
            /\ fin.r.options.filter_policy = "nullptr"
            /\ fin.r.null_name = "crash"
         THEN [fin EXCEPT !.r.crashed = TRUE]
         ELSE
         LET meta_index_block ==
                 IF fin.r.filter_block.present
                 THEN <<Entry(<<"filter.", Name(fin.r)>>,
                              EncodeTo(fin.filter_block_handle), 2)>>
                 ELSE <<>>
             w == WriteBlock(fin.r, "meta_index_block", meta_index_block)
         IN [fin EXCEPT !.r = w.r, !.metaindex_block_handle = w.handle]
    ELSE fin

\* "Write index block" that does not emit the entry still pending
WriteIndexBlockDropsPending(fin, succ) ==
    IF ok(fin.r) /\ ~fin.r.crashed
    THEN LET w == WriteBlock(fin.r, "index_block", fin.r.index_block)
         IN [fin EXCEPT !.r = w.r, !.index_block_handle = w.handle]
    ELSE fin

\* Finish, "Write index block"; succ is what FindShortSuccessor leaves in
\* last_key
WriteIndexBlock(fin, succ) ==
    IF ok(fin.r) /\ ~fin.r.crashed
    THEN LET r1 == IF fin.r.pending_index_entry
                   THEN LET s == [fin.r EXCEPT !.last_key = succ]
                        IN [s EXCEPT
                              !.index_block =
                                  Append(@, Entry(s.last_key,
                                                  EncodeTo(s.pending_handle), 2)),
                              !.pending_index_entry = FALSE]
                   ELSE fin.r
             w == WriteBlock(r1, "index_block", r1.index_block)
         IN [fin EXCEPT !.r = w.r, !.index_block_handle = w.handle]
    ELSE fin

\* "Write footer" that does not add the footer's length to offset
WriteFooterKeepsOffset(fin) ==
    IF ok(fin.r) /\ ~fin.r.crashed
    THEN LET f == FileAppend(fin.r.file,
                             FooterOf(fin.metaindex_block_handle,
                                      fin.index_block_handle))
         IN [fin.r EXCEPT !.file = f, !.status = f.last]
    ELSE fin.r

\* "Write footer" that appends the footer whatever the status is
WriteFooterIgnoresStatus(fin) ==
    IF ~fin.r.crashed
    THEN LET f == FileAppend(fin.r.file,
                             FooterOf(fin.metaindex_block_handle,
                                      fin.index_block_handle))
         IN [fin.r EXCEPT !.file = f, !.status = f.last,
                          !.offset = IF f.last.ok THEN @ + kEncodedLength ELSE @]
    ELSE fin.r

\* Finish, "Write footer", and the builder Finish leaves
WriteFooter(fin) ==
    IF ok(fin.r) /\ ~fin.r.crashed
    THEN LET f == FileAppend(fin.r.file,
                             FooterOf(fin.metaindex_block_handle,
                                      fin.index_block_handle))
         IN [fin.r EXCEPT !.file = f, !.status = f.last,
                          !.offset = IF f.last.ok THEN @ + kEncodedLength ELSE @]
    ELSE fin.r

\* Finish that writes the index block before the metaindex block
FinishIndexFirst(r, succ) ==
    LET fin == [r |-> [Flush(r) EXCEPT !.closed = TRUE],
                filter_block_handle |-> NullHandle,
                metaindex_block_handle |-> NullHandle,
                index_block_handle |-> NullHandle]
    IN WriteFooter(
         WriteMetaindexBlock(WriteIndexBlock(WriteFilterBlock(fin), succ)))

\* TableBuilder::Finish
Finish(r, succ) ==
    LET fin == [r |-> [Flush(r) EXCEPT !.closed = TRUE],
                filter_block_handle |-> NullHandle,
                metaindex_block_handle |-> NullHandle,
                index_block_handle |-> NullHandle]
    IN WriteFooter(
         WriteIndexBlock(WriteMetaindexBlock(WriteFilterBlock(fin)), succ))

\* Abandon that writes the data block out before it closes the builder
AbandonFlushes(r) == [Flush(r) EXCEPT !.closed = TRUE]

\* TableBuilder::Abandon
Abandon(r) == [r EXCEPT !.closed = TRUE]

\* assert(!r->closed) at the head of Add, Flush, Finish and Abandon, when it
\* fails: the process is aborted there
AssertNotClosed(r) == IF r.closed THEN [r EXCEPT !.crashed = TRUE] ELSE r

\* TableBuilder::NumEntries, TableBuilder::FileSize, TableBuilder::status
NumEntries(r) == r.num_entries
FileSize(r) == r.offset
status(r) == r.status

----------------------------------------------------------------------------
(* Iterators over one block (table/block.cc, table/iterator.cc), as the     *)
(* IteratorWrapper holds them: the block's entries and a position, 0 when   *)
(* the iterator is not Valid                                                *)

NullIter == [iter |-> "nullptr", entries |-> <<>>, pos |-> 0, status |-> OK]
BlockIter(entries, st) == [iter |-> "set", entries |-> entries, pos |-> 0, status |-> st]
\* NewErrorIterator: never Valid, whatever is called on it
ErrorIter(st) == BlockIter(<<>>, st)

IterValid(i) == i.iter # "nullptr" /\ i.pos # 0
IterKey(i) == i.entries[i.pos].key
IterValue(i) == i.entries[i.pos].value

\* the first position whose key is >= target, 0 when there is none
FirstGE(entries, target) ==
    LET ge == {j \in 1..Len(entries) : Compare(entries[j].key, target) >= 0}
    IN IF ge = {} THEN 0 ELSE CHOOSE j \in ge : \A m \in ge : j <= m

IterSeek(i, target) == [i EXCEPT !.pos = FirstGE(i.entries, target)]
IterSeekToFirst(i) == [i EXCEPT !.pos = IF i.entries = <<>> THEN 0 ELSE 1]
IterSeekToLast(i) == [i EXCEPT !.pos = Len(i.entries)]
IterNext(i) == [i EXCEPT !.pos = IF @ < Len(i.entries) THEN @ + 1 ELSE 0]
IterPrev(i) == [i EXCEPT !.pos = @ - 1]

\* Table::BlockReader, the block_function: the block the table holds at the
\* handle, an error iterator when it holds none there
block_function(arg, handle) ==
    LET found == {j \in 1..Len(arg) : arg[j].handle = handle}
    IN IF found = {} THEN ErrorIter(Corruption)
       ELSE LET b == arg[CHOOSE j \in found : TRUE]
            IN BlockIter(b.entries, b.status)

----------------------------------------------------------------------------
(* TwoLevelIterator *)

\* TwoLevelIterator::TwoLevelIterator over an index block and a table
NewTwoLevelIterator(index_entries, index_status, arg) ==
    [open |-> TRUE,
     index_iter_ |-> BlockIter(index_entries, index_status),
     data_iter_ |-> NullIter,
     data_block_handle_ |-> <<>>,
     status_ |-> OK,
     arg_ |-> arg,
     stuck |-> FALSE,
     loads |-> 0,
     reloaded |-> FALSE,
     first_error |-> OK]

\* no iterator has been constructed
NoIterator ==
    [open |-> FALSE, index_iter_ |-> NullIter, data_iter_ |-> NullIter,
     data_block_handle_ |-> <<>>, status_ |-> OK, arg_ |-> <<>>, stuck |-> FALSE,
     loads |-> 0, reloaded |-> FALSE, first_error |-> OK]

\* TwoLevelIterator::Valid, key, value
Valid(it) == IterValid(it.data_iter_)
key(it) == IterKey(it.data_iter_)
value(it) == IterValue(it.data_iter_)

\* TwoLevelIterator::SaveError
SaveError(it, s) ==
    IF it.status_.ok /\ ~s.ok THEN [it EXCEPT !.status_ = s] ELSE it

\* SetDataIterator that drops the outgoing iterator with its status
SetDataIteratorDropsStatus(it, data_iter) ==
    [it EXCEPT !.data_iter_ = data_iter]

\* TwoLevelIterator::SetDataIterator
SetDataIterator(it, data_iter) ==
    LET it1 == IF it.data_iter_.iter # "nullptr"
               THEN SaveError(it, it.data_iter_.status)
               ELSE it
    IN [it1 EXCEPT !.data_iter_ = data_iter]

\* a call of block_function: loads counts the calls made in the public call
\* under way, reloaded records one whose handle is that of the data
\* iterator held, first_error is the status of the first iterator returned
\* whose status is not OK
Loading(it, handle) ==
    [it EXCEPT !.loads = @ + 1,
               !.reloaded = @ \/ (/\ it.data_iter_.iter # "nullptr"
                                  /\ handle = it.data_block_handle_),
               !.first_error =
                   IF @.ok THEN block_function(it.arg_, handle).status ELSE @]

\* a public call begins
Called(it) == [it EXCEPT !.loads = 0]

\* InitDataBlock that builds the data iterator anew whenever the index
\* iterator is Valid
InitDataBlockAlwaysLoads(it) ==
    IF ~IterValid(it.index_iter_)
    THEN SetDataIterator(it, NullIter)
    ELSE LET handle == IterValue(it.index_iter_)
             new_iter == block_function(it.arg_, handle)
         IN SetDataIterator([Loading(it, handle)
                                EXCEPT !.data_block_handle_ = handle],
                            new_iter)

\* TwoLevelIterator::InitDataBlock
InitDataBlock(it) ==
    IF ~IterValid(it.index_iter_)
    THEN SetDataIterator(it, NullIter)
    ELSE LET handle == IterValue(it.index_iter_)
         IN IF it.data_iter_.iter # "nullptr" /\ handle = it.data_block_handle_
            THEN it
            ELSE LET new_iter == block_function(it.arg_, handle)
                 IN SetDataIterator([Loading(it, handle)
                                        EXCEPT !.data_block_handle_ = handle],
                                    new_iter)

\* the loops below run at most once per index entry and once more; stuck
\* records a loop that did not end within that many rounds
LoopFuel(it) == Len(it.index_iter_.entries) + 2

\* the body of the while loop of SkipEmptyDataBlocksForward
RECURSIVE ForwardLoop(_, _)
ForwardLoop(it, fuel) ==
    IF ~(it.data_iter_.iter = "nullptr" \/ ~IterValid(it.data_iter_)) THEN it
    ELSE IF ~IterValid(it.index_iter_) THEN SetDataIterator(it, NullIter)
    ELSE IF fuel = 0 THEN [it EXCEPT !.stuck = TRUE]
    ELSE LET it1 == [it EXCEPT !.index_iter_ = IterNext(@)]
             it2 == InitDataBlock(it1)
             it3 == IF it2.data_iter_.iter # "nullptr"
                    THEN [it2 EXCEPT !.data_iter_ = IterSeekToFirst(@)]
                    ELSE it2
         IN ForwardLoop(it3, fuel - 1)

\* SkipEmptyDataBlocksForward with "if" where the code has "while": it moves
\* on by one block only
SkipOneBlockForward(it) ==
    IF ~(it.data_iter_.iter = "nullptr" \/ ~IterValid(it.data_iter_)) THEN it
    ELSE IF ~IterValid(it.index_iter_) THEN SetDataIterator(it, NullIter)
    ELSE LET it1 == [it EXCEPT !.index_iter_ = IterNext(@)]
             it2 == InitDataBlock(it1)
         IN IF it2.data_iter_.iter # "nullptr"
            THEN [it2 EXCEPT !.data_iter_ = IterSeekToFirst(@)]
            ELSE it2

\* TwoLevelIterator::SkipEmptyDataBlocksForward
SkipEmptyDataBlocksForward(it) == ForwardLoop(it, LoopFuel(it))

\* the body of the while loop of SkipEmptyDataBlocksBackward
RECURSIVE BackwardLoop(_, _)
BackwardLoop(it, fuel) ==
    IF ~(it.data_iter_.iter = "nullptr" \/ ~IterValid(it.data_iter_)) THEN it
    ELSE IF ~IterValid(it.index_iter_) THEN SetDataIterator(it, NullIter)
    ELSE IF fuel = 0 THEN [it EXCEPT !.stuck = TRUE]
    ELSE LET it1 == [it EXCEPT !.index_iter_ = IterPrev(@)]
             it2 == InitDataBlock(it1)
             it3 == IF it2.data_iter_.iter # "nullptr"
                    THEN [it2 EXCEPT !.data_iter_ = IterSeekToLast(@)]
                    ELSE it2
         IN BackwardLoop(it3, fuel - 1)

\* TwoLevelIterator::SkipEmptyDataBlocksBackward
SkipEmptyDataBlocksBackward(it) == BackwardLoop(it, LoopFuel(it))

\* Seek without the final SkipEmptyDataBlocksForward
SeekWithoutSkip(it, target) ==
    LET it1 == [it EXCEPT !.index_iter_ = IterSeek(@, target)]
        it2 == InitDataBlock(it1)
    IN IF it2.data_iter_.iter # "nullptr"
       THEN [it2 EXCEPT !.data_iter_ = IterSeek(@, target)]
       ELSE it2

\* TwoLevelIterator::Seek
Seek(it, target) ==
    LET it1 == [it EXCEPT !.index_iter_ = IterSeek(@, target)]
        it2 == InitDataBlock(it1)
        it3 == IF it2.data_iter_.iter # "nullptr"
               THEN [it2 EXCEPT !.data_iter_ = IterSeek(@, target)]
               ELSE it2
    IN SkipEmptyDataBlocksForward(it3)

\* TwoLevelIterator::SeekToFirst
SeekToFirst(it) ==
    LET it1 == [it EXCEPT !.index_iter_ = IterSeekToFirst(@)]
        it2 == InitDataBlock(it1)
        it3 == IF it2.data_iter_.iter # "nullptr"
               THEN [it2 EXCEPT !.data_iter_ = IterSeekToFirst(@)]
               ELSE it2
    IN SkipEmptyDataBlocksForward(it3)

\* TwoLevelIterator::SeekToLast
SeekToLast(it) ==
    LET it1 == [it EXCEPT !.index_iter_ = IterSeekToLast(@)]
        it2 == InitDataBlock(it1)
        it3 == IF it2.data_iter_.iter # "nullptr"
               THEN [it2 EXCEPT !.data_iter_ = IterSeekToLast(@)]
               ELSE it2
    IN SkipEmptyDataBlocksBackward(it3)

\* TwoLevelIterator::Next
TLNext(it) ==
    SkipEmptyDataBlocksForward([it EXCEPT !.data_iter_ = IterNext(@)])

\* Prev that skips empty blocks forward, as Next does
PrevSkippingForward(it) ==
    SkipEmptyDataBlocksForward([it EXCEPT !.data_iter_ = IterPrev(@)])

\* TwoLevelIterator::Prev
TLPrev(it) ==
    SkipEmptyDataBlocksBackward([it EXCEPT !.data_iter_ = IterPrev(@)])

\* TwoLevelIterator::status
IterStatus(it) ==
    IF ~it.index_iter_.status.ok THEN it.index_iter_.status
    ELSE IF it.data_iter_.iter # "nullptr" /\ ~it.data_iter_.status.ok
    THEN it.data_iter_.status
    ELSE it.status_

----------------------------------------------------------------------------
(* Reading a finished file back: Table::Open and Table::BlockReader         *)

RECURSIVE SumSizes(_)
SumSizes(appends) ==
    IF appends = <<>> THEN 0
    ELSE appends[1].size + SumSizes(Tail(appends))

\* the j-th Append is a block's payload, followed by its trailer
Framed(appends, j) ==
    /\ appends[j].kind \notin {"trailer", "footer"}
    /\ j < Len(appends)
    /\ appends[j + 1].kind = "trailer"

\* the blocks a reader finds in the file: the handle that locates each and
\* the entries it decodes (a compressed block is uncompressed on the way)
RECURSIVE ReadableFrom(_, _, _)
ReadableFrom(appends, j, start) ==
    IF j > Len(appends) THEN <<>>
    ELSE IF Framed(appends, j)
    THEN <<[handle |-> <<start, appends[j].size>>,
            kind |-> appends[j].kind,
            entries |-> appends[j].entries,
            status |-> OK]>>
             \o ReadableFrom(appends, j + 1, start + appends[j].size)
    ELSE ReadableFrom(appends, j + 1, start + appends[j].size)

ReadableBlocks(appends) == ReadableFrom(appends, 1, 0)

\* the data blocks among them: what BlockReader can hand to the iterator
DataBlocksOf(appends) ==
    SelectSeq(ReadableBlocks(appends), LAMBDA b : b.kind = "data_block")

\* the entries of the block of that kind at the encoded handle, <<>> if none
BlockAt(blocks, kind, enc) ==
    LET bs == SelectSeq(blocks, LAMBDA b : b.kind = kind /\ b.handle = enc)
    IN IF bs = <<>> THEN <<>> ELSE bs[1].entries

\* the footer, the last Append of a finished file
FooterIn(appends) == appends[Len(appends)]
HasFooter(appends) == appends # <<>> /\ FooterIn(appends).kind = "footer"

\* the index block the footer points at
IndexEntriesOf(appends) ==
    IF HasFooter(appends)
    THEN BlockAt(ReadableBlocks(appends), "index_block",
                 FooterIn(appends).entries[2])
    ELSE <<>>

----------------------------------------------------------------------------
(* The builder's calls *)

NoHist ==
    [op |-> "none", target |-> 0, from |-> 0, run |-> "none", out |-> <<>>,
     loads |-> 0, held |-> FALSE]

\* the call before this state was neither ChangeOptions nor Flush
NoRet == [op |-> "other", status |-> OK, comparator |-> "bytewise"]

\* the call before this state was Flush
FlushRet == [op |-> "Flush", status |-> OK, comparator |-> "bytewise"]

\* no call of the builder has been made; ret tells whether the call before
\* this state was ChangeOptions or Flush and, for ChangeOptions, the
\* comparator handed to it and what it returned
NoCalls == [adds |-> <<>>, finished |-> FALSE, result |-> OK, ret |-> NoRet]

InitBuilder ==
    /\ \E block_size \in BlockSizes, policy \in Policies,
          compression \in {kNoCompression, kSnappyCompression},
          snappy \in BOOLEAN :
         /\ compression = kNoCompression => snappy
         /\ rep_ = NewRep(Options(block_size, compression, policy))
         /\ port = Port(snappy, -1)
    /\ calls = NoCalls
    /\ iter = NoIterator
    /\ hist = NoHist

\* the keys a caller that adds in increasing order may add next
NextKeys ==
    {k \in Keys : calls.adds = <<>> \/ k > calls.adds[Len(calls.adds)].key}

DoAdd ==
    /\ ~rep_.closed
    /\ \E k \in NextKeys, v \in Values, ft \in Faults(AppendsInFlush) :
         /\ (ok(rep_) /\ rep_.num_entries > 0) => Compare(k, rep_.last_key) > 0
         /\ \E sep \in IF ok(rep_) /\ rep_.pending_index_entry
                       THEN FindShortestSeparator(rep_.last_key, k)
                       ELSE {rep_.last_key} :
              rep_' = NoFaults(Add(WithFaults(rep_, ft), k, v, sep))
         /\ calls' = [calls EXCEPT !.adds = Append(@, Entry(k, v, v)),
                                   !.ret = NoRet]
    /\ UNCHANGED <<port, iter, hist>>

DoFlush ==
    /\ ~rep_.closed
    /\ \E ft \in Faults(AppendsInFlush) :
         rep_' = NoFaults(Flush(WithFaults(rep_, ft)))
    /\ calls' = [calls EXCEPT !.ret = FlushRet]
    /\ UNCHANGED <<port, iter, hist>>

DoFinish ==
    /\ ~rep_.closed
    /\ \E ft \in Faults(AppendsInFinish),
          outcome \in IF rep_.filter_block.present
                         /\ rep_.options.filter_policy = "nullptr"
                      THEN NullCalls ELSE {"crash"} :
         \E succ \in IF rep_.num_entries > 0
                     THEN FindShortSuccessor(rep_.last_key)
                     ELSE {rep_.last_key} :
           /\ rep_' = NoFaults(Finish(WithNullCall(WithFaults(rep_, ft),
                                                   outcome), succ))
           /\ calls' = [calls EXCEPT !.finished = ~rep_'.crashed,
                                     !.result = rep_'.status,
                                     !.ret = NoRet]
    /\ UNCHANGED <<port, iter, hist>>

DoAbandon ==
    /\ ~rep_.closed
    /\ rep_' = Abandon(rep_)
    /\ calls' = [calls EXCEPT !.ret = NoRet]
    /\ UNCHANGED <<port, iter, hist>>

\* Add, Flush, Finish or Abandon called on a closed builder
DoCallClosed ==
    /\ rep_.closed /\ ~rep_.crashed
    /\ rep_' = AssertNotClosed(rep_)
    /\ calls' = [calls EXCEPT !.ret = NoRet]
    /\ UNCHANGED <<port, iter, hist>>

\* ChangeOptions has no assertion on closed: it may be called as long as the
\* builder exists
DoChangeOptions ==
    /\ ~rep_.crashed
    /\ ~iter.open
    /\ \E options \in ChangedOptions(rep_.options) :
         LET c == ChangeOptions(rep_, options)
         IN /\ rep_' = c.r
            /\ calls' = [calls EXCEPT !.ret = [op |-> "ChangeOptions",
                                               status |-> c.status,
                                               comparator |-> options.comparator]]
    /\ UNCHANGED <<port, iter, hist>>

\* the filter policies a caller may hand over: none, the one of the
\* library, or one of the caller's own
AnyPolicy == Policies \cup {"custom"}

\* ChangeOptions called with a copy of the builder's options, same
\* comparator, and any filter policy
DoChangePolicy ==
    /\ ~rep_.crashed
    /\ ~iter.open
    /\ \E filter_policy \in AnyPolicy :
         LET options == [rep_.options EXCEPT !.filter_policy = filter_policy]
             c == ChangeOptions(rep_, options)
         IN /\ rep_' = c.r
            /\ calls' = [calls EXCEPT !.ret = [op |-> "ChangeOptions",
                                               status |-> c.status,
                                               comparator |-> options.comparator]]
    /\ UNCHANGED <<port, iter, hist>>

\* Table::Open on the finished file, then Table::NewIterator
OpenTable ==
    /\ calls.finished /\ calls.result.ok
    /\ ~iter.open
    /\ iter' = NewTwoLevelIterator(IndexEntriesOf(rep_.file.appends), OK,
                                   DataBlocksOf(rep_.file.appends))
    /\ calls' = [calls EXCEPT !.ret = NoRet]
    /\ UNCHANGED <<rep_, port, hist>>

----------------------------------------------------------------------------
(* The iterator's calls *)

\* the key the iterator is at, 0 when it is not Valid
At(it) == IF Valid(it) THEN key(it) ELSE 0
\* the entry the iterator is at
Current(it) == Entry(key(it), value(it), it.data_iter_.entries[it.data_iter_.pos].bytes)
Yield(it) == IF Valid(it) THEN <<Current(it)>> ELSE <<>>

\* the iterator holds the data iterator of the first index entry
HoldsFirst(it) ==
    /\ it.data_iter_.iter # "nullptr"
    /\ it.index_iter_.entries # <<>>
    /\ it.data_block_handle_ = it.index_iter_.entries[1].value

DoSeek ==
    /\ iter.open
    /\ \E target \in AllKeys :
         /\ iter' = Seek(Called(iter), target)
         /\ hist' = [op |-> "Seek", target |-> target, from |-> 0,
                     run |-> "none", out |-> <<>>,
                     loads |-> 0, held |-> FALSE]
    /\ UNCHANGED <<rep_, port, calls>>

DoSeekToFirst ==
    /\ iter.open
    /\ iter' = SeekToFirst(Called(iter))
    /\ hist' = [op |-> "SeekToFirst", target |-> 0, from |-> 0,
                run |-> "forward", out |-> Yield(iter'),
                loads |-> iter'.loads, held |-> HoldsFirst(iter)]
    /\ UNCHANGED <<rep_, port, calls>>

DoSeekToLast ==
    /\ iter.open
    /\ iter' = SeekToLast(Called(iter))
    /\ hist' = [op |-> "SeekToLast", target |-> 0, from |-> 0,
                run |-> "backward", out |-> Yield(iter'),
                loads |-> 0, held |-> FALSE]
    /\ UNCHANGED <<rep_, port, calls>>

DoNext ==
    /\ iter.open
    /\ Valid(iter)
    /\ iter' = TLNext(Called(iter))
    /\ hist' = IF hist.run = "forward"
               THEN [hist EXCEPT !.op = "Next", !.from = At(iter),
                                 !.out = @ \o Yield(iter'),
                                 !.loads = @ + iter'.loads]
               ELSE [op |-> "Next", target |-> 0, from |-> At(iter),
                     run |-> "none", out |-> <<>>,
                     loads |-> 0, held |-> FALSE]
    /\ UNCHANGED <<rep_, port, calls>>

\* the key the iterator was at before the Next that this Prev follows, 0
\* when the operation before this Prev was not a Next
NextLeft == IF hist.op = "Next" THEN hist.from ELSE 0

DoPrev ==
    /\ iter.open
    /\ Valid(iter)
    /\ iter' = TLPrev(Called(iter))
    /\ hist' = IF hist.run = "backward"
               THEN [hist EXCEPT !.op = "Prev", !.from = NextLeft,
                                 !.out = @ \o Yield(iter')]
               ELSE [op |-> "Prev", target |-> 0, from |-> NextLeft,
                     run |-> "none", out |-> <<>>,
                     loads |-> 0, held |-> FALSE]
    /\ UNCHANGED <<rep_, port, calls>>

Next ==
    \/ DoAdd
    \/ DoFlush
    \/ DoFinish
    \/ DoAbandon
    \/ OpenTable
    \/ DoSeek
    \/ DoSeekToFirst
    \/ DoSeekToLast
    \/ DoNext
    \/ DoPrev

Spec == InitBuilder /\ [][Next]_vars

\* a build during which the caller changes the options
NextOptions ==
    \/ DoAdd
    \/ DoFlush
    \/ DoFinish
    \/ DoAbandon
    \/ DoCallClosed
    \/ DoChangeOptions

\* such a build starts without compression, which ChangeOptions here leaves
\* as it is
InitOptions ==
    /\ \E block_size \in BlockSizes, policy \in Policies :
         rep_ = NewRep(Options(block_size, kNoCompression, policy))
    /\ port = Port(TRUE, -1)
    /\ calls = NoCalls
    /\ iter = NoIterator
    /\ hist = NoHist

SpecOptions == InitOptions /\ [][NextOptions]_vars

\* a build during which the caller changes the filter policy only; it
\* starts with any policy
NextPolicy ==
    \/ DoAdd
    \/ DoFlush
    \/ DoFinish
    \/ DoChangePolicy

InitPolicy ==
    /\ \E block_size \in BlockSizes, policy \in AnyPolicy :
         rep_ = NewRep(Options(block_size, kNoCompression, policy))
    /\ port = Port(TRUE, -1)
    /\ calls = NoCalls
    /\ iter = NoIterator
    /\ hist = NoHist

SpecPolicy == InitPolicy /\ [][NextPolicy]_vars

----------------------------------------------------------------------------
(* The iterator over any table: an index whose keys increase, and for each  *)
(* index entry a block that is empty, unreadable, or holds keys above the   *)
(* index key before it and up to its own                                    *)

RECURSIVE SortedSeq(_)
SortedSeq(S) ==
    IF S = {} THEN <<>>
    ELSE LET m == CHOOSE x \in S : \A y \in S : x <= y
         IN <<m>> \o SortedSeq(S \ {m})

ValueOf(k) == IF k % 2 = 1 THEN 1 ELSE 2

\* the keys of dataKeys that fall to the i-th block of the index idx
KeysOfBlock(idx, dataKeys, i) ==
    {k \in dataKeys : k <= idx[i] /\ (i > 1 => k > idx[i - 1])}

EntriesOf(keySet) ==
    LET ks == SortedSeq(keySet)
    IN [j \in 1..Len(ks) |-> Entry(ks[j], ValueOf(ks[j]), ValueOf(ks[j]))]

HandleOf(idx, dataKeys, i) == <<10 * i, Cardinality(KeysOfBlock(idx, dataKeys, i))>>

\* the index block of the table
TableIndex(idx, dataKeys) ==
    [i \in 1..Len(idx) |-> Entry(idx[i], HandleOf(idx, dataKeys, i), 2)]

\* the blocks of the table; those numbered in errs cannot be read
TableBlocks(idx, dataKeys, errs) ==
    [i \in 1..Len(idx) |->
        [handle |-> HandleOf(idx, dataKeys, i),
         kind |-> "data_block",
         entries |-> IF i \in errs THEN <<>>
                     ELSE EntriesOf(KeysOfBlock(idx, dataKeys, i)),
         status |-> IF i \in errs THEN CorruptionAt(i) ELSE OK]]

InitIter ==
    /\ rep_ = Abandon(NewRep(Options(1, kNoCompression, "nullptr")))
    /\ port = Port(TRUE, -1)
    /\ calls = NoCalls
    /\ hist = NoHist
    /\ \E idxKeys \in {s \in SUBSET AllKeys : Cardinality(s) <= MaxBlocks} :
         LET idx == SortedSeq(idxKeys)
         IN \E dataKeys \in SUBSET AllKeys, errs \in SUBSET (1..Len(idx)),
               index_status \in {OK, Corruption} :
              /\ \A k \in dataKeys : idx # <<>> /\ k <= idx[Len(idx)]
              /\ \A i \in errs : KeysOfBlock(idx, dataKeys, i) = {}
              /\ iter = NewTwoLevelIterator(TableIndex(idx, dataKeys),
                                            index_status,
                                            TableBlocks(idx, dataKeys, errs))

NextIter ==
    \/ DoSeek
    \/ DoSeekToFirst
    \/ DoSeekToLast
    \/ DoNext
    \/ DoPrev

SpecIter == InitIter /\ [][NextIter]_vars

----------------------------------------------------------------------------
(* What the claims speak of *)

\* every entry of the table the iterator is over, block after block in the
\* order of the index
RECURSIVE EntriesFrom(_, _)
EntriesFrom(it, i) ==
    IF i > Len(it.index_iter_.entries) THEN <<>>
    ELSE block_function(it.arg_, it.index_iter_.entries[i].value).entries
             \o EntriesFrom(it, i + 1)
AllEntries(it) == EntriesFrom(it, 1)

Reverse(s) == [j \in 1..Len(s) |-> s[Len(s) + 1 - j]]
IsPrefix(p, s) == Len(p) <= Len(s) /\ p = SubSeq(s, 1, Len(p))
Ascending(s) == \A j \in 1..(Len(s) - 1) : Compare(s[j].key, s[j + 1].key) < 0
Descending(s) == \A j \in 1..(Len(s) - 1) : Compare(s[j].key, s[j + 1].key) > 0

\* the smallest key >= target among the entries, 0 when there is none
SmallestGE(entries, target) ==
    LET ge == {entries[j].key : j \in {m \in 1..Len(entries) :
                                          Compare(entries[m].key, target) >= 0}}
    IN IF ge = {} THEN 0 ELSE CHOOSE k \in ge : \A x \in ge : k <= x

\* a run of the iterator, in one direction from one end, has yielded the
\* entries of `all` so far, the last of them the one it is at, and all of
\* them once it is no longer Valid
Traversed(all) ==
    /\ IsPrefix(hist.out, all)
    /\ Valid(iter) => hist.out # <<>> /\ hist.out[Len(hist.out)] = Current(iter)
    /\ ~Valid(iter) => hist.out = all

\* the blocks of the iterator's table that hold no entry
EmptyBlocks(it) ==
    {i \in 1..Len(it.index_iter_.entries) :
        block_function(it.arg_, it.index_iter_.entries[i].value).entries = <<>>}

----------------------------------------------------------------------------
(* C1 - Round trip. When a build has added the pairs S in increasing key   *)
(* order, with any block_size and any Flush calls between them, and        *)
(* Finish has returned OK, a two-level iterator over the file's index      *)
(* block and data blocks, run by SeekToFirst and then Next until it is not *)
(* Valid, yields exactly S in order: at every point of the run it has      *)
(* yielded a prefix of S, and all of S when it stops.                      *)
C1_RoundTrip ==
    (iter.open /\ hist.run = "forward") =>
        /\ Traversed(calls.adds)
        /\ ~iter.stuck

\* a finished traversal of a table of MaxKey pairs in two data blocks or
\* more, cut by an explicit Flush (the blocks are below block_size)
C1_Witness ==
    /\ iter.open /\ hist.run = "forward" /\ ~Valid(iter)
    /\ Len(calls.adds) = MaxKey /\ hist.out = calls.adds
    /\ rep_.options.block_size = 12
    /\ Len(DataBlocksOf(rep_.file.appends)) >= 2

(* C2 - Seek(k), from any position of the iterator, leaves it at the       *)
(* smallest key >= k of all the entries of all the data blocks, and not    *)
(* Valid when there is none, over every table whose index keys increase    *)
(* and separate the blocks, with empty and unreadable blocks among them.   *)
C2_SeekLands ==
    hist.op = "Seek" =>
        /\ At(iter) = SmallestGE(AllEntries(iter), hist.target)
        /\ ~iter.stuck

\* the block the index seek selects holds keys, none of them >= k, the
\* block after it is empty, and Seek has landed in a block beyond both
C2_Witness ==
    /\ hist.op = "Seek" /\ Valid(iter)
    /\ LET i == FirstGE(iter.index_iter_.entries, hist.target)
           b == block_function(iter.arg_, iter.index_iter_.entries[i].value)
       IN /\ i # 0
          /\ b.entries # <<>>
          /\ \A j \in 1..Len(b.entries) : b.entries[j].key < hist.target
          /\ i + 1 \in EmptyBlocks(iter)
          /\ iter.index_iter_.pos > i + 1

(* C3 - Forward traversal. Over any index of data blocks, some of them     *)
(* empty or unreadable, SeekToFirst and then Next visit every entry once   *)
(* in ascending order, Next at the last entry leaves the iterator not      *)
(* Valid, and the skip-forward loop ends.                                  *)
C3_ForwardTraversal ==
    /\ hist.run = "forward" =>
           /\ Traversed(AllEntries(iter))
           /\ Ascending(hist.out)
    /\ ~iter.stuck

\* a traversal that Next has ended, of two entries or more, over a table
\* with an empty readable block and an unreadable one
C3_Witness ==
    /\ hist.run = "forward" /\ hist.op = "Next" /\ ~Valid(iter)
    /\ Len(hist.out) >= 2
    /\ \E i, j \in EmptyBlocks(iter) :
          /\ iter.arg_[i].status.ok
          /\ ~iter.arg_[j].status.ok

(* C4 - Backward traversal. SeekToLast and then Prev visit every entry     *)
(* once in descending order and Prev at the first entry leaves the         *)
(* iterator not Valid; and a Prev that follows a Next which left the       *)
(* iterator Valid is back at the entry that Next left.                     *)
C4_BackwardTraversal ==
    /\ hist.run = "backward" =>
           /\ Traversed(Reverse(AllEntries(iter)))
           /\ Descending(hist.out)
    /\ (hist.op = "Prev" /\ hist.from # 0) => At(iter) = hist.from
    /\ ~iter.stuck

\* a traversal that Prev has ended, of two entries or more in two blocks
\* with an empty block between them
C4_Witness ==
    /\ hist.run = "backward" /\ hist.op = "Prev" /\ ~Valid(iter)
    /\ Len(hist.out) >= 2
    /\ \E i \in EmptyBlocks(iter) :
          /\ i > 1 /\ i < Len(iter.index_iter_.entries)
          /\ (i - 1) \notin EmptyBlocks(iter)
          /\ (i + 1) \notin EmptyBlocks(iter)

----------------------------------------------------------------------------
(* What the claims about the builder speak of *)

appends == rep_.file.appends
FinishedOK == calls.finished /\ calls.result.ok

\* the blocks of one kind among those a reader finds in the file
OfKind(blocks, kind) == SelectSeq(blocks, LAMBDA b : b.kind = kind)

\* the entries of the index block among them that the footer points at
IndexIn(blocks) ==
    IF HasFooter(appends)
    THEN BlockAt(blocks, "index_block", FooterIn(appends).entries[2])
    ELSE <<>>

\* the index entries the builder has emitted: in the index block it is
\* filling, or in the file once Finish has written it
IndexSoFar(blocks) ==
    IF HasFooter(appends) THEN IndexIn(blocks) ELSE rep_.index_block

\* the data blocks written, then the one being filled if it holds a key
BlocksSoFar(blocks) ==
    LET data == OfKind(blocks, "data_block")
    IN [i \in 1..Len(data) |-> data[i].entries]
        \o (IF rep_.data_block = <<>> THEN <<>> ELSE <<rep_.data_block>>)

KeysIn(entries) == {entries[j].key : j \in 1..Len(entries)}

RECURSIVE Concat(_)
Concat(blocks) ==
    IF blocks = <<>> THEN <<>> ELSE blocks[1].entries \o Concat(Tail(blocks))

\* the Append calls that wrote a payload or the footer, without the trailers
Payloads == SelectSeq(appends, LAMBDA a : a.kind # "trailer")

\* the place of each kind of Append in the layout of a table file
Rank(kind) ==
    CASE kind = "data_block" -> 1
      [] kind = "filter_block" -> 2
      [] kind = "meta_index_block" -> 3
      [] kind = "index_block" -> 4
      [] kind = "footer" -> 5

\* the handles the builder has recorded in the file, in the order of the
\* blocks they were recorded for
RecordedHandles(blocks) ==
    LET index == IndexIn(blocks)
        metaindex == OfKind(blocks, "meta_index_block")
    IN [i \in 1..Len(index) |-> index[i].value]
        \o (IF metaindex # <<>>
            THEN [j \in 1..Len(metaindex[1].entries) |->
                     metaindex[1].entries[j].value]
            ELSE <<>>)
        \o FooterIn(appends).entries

RECURSIVE FramedSizes(_)
FramedSizes(handles) ==
    IF handles = <<>> THEN 0
    ELSE handles[1][2] + kBlockTrailerSize + FramedSizes(Tail(handles))

----------------------------------------------------------------------------
C6_IndexKeysSeparate ==
    LET index == IndexSoFar(ReadableBlocks(appends))
        blocks == BlocksSoFar(ReadableBlocks(appends))
    IN \A i \in 1..Len(index) :
        /\ i <= Len(blocks)
        /\ \A k \in KeysIn(blocks[i]) : Compare(index[i].key, k) >= 0
        /\ i + 1 <= Len(blocks) =>
               \A k \in KeysIn(blocks[i + 1]) : Compare(index[i].key, k) < 0
        /\ i > 1 => Compare(index[i - 1].key, index[i].key) < 0

\* a finished build of two blocks or more whose first index key is above
\* the last key of its block (a separator that is not that key) and whose
\* last index key is above the last key added (a successor)
C6_Witness ==
    LET index == IndexSoFar(ReadableBlocks(appends))
        blocks == BlocksSoFar(ReadableBlocks(appends))
    IN /\ FinishedOK
       /\ Len(index) >= 2
       /\ \A k \in KeysIn(blocks[1]) : index[1].key > k
       /\ index[Len(index)].key > calls.adds[Len(calls.adds)].key

(* C7 - In a build whose Finish returns OK every recorded handle locates   *)
(* its block: the i-th index entry holds (start, payload length) of the    *)
(* i-th data block, the metaindex entry those of the filter block, the     *)
(* footer those of the metaindex and index blocks; and each block starts   *)
(* where the blocks before it, each with its 5-byte trailer, end.          *)
C7_HandlesLocateBlocks ==
    FinishedOK =>
        LET blocks == ReadableBlocks(appends)
            index == IndexIn(blocks)
            data == OfKind(blocks, "data_block")
            filter == OfKind(blocks, "filter_block")
            metaindex == OfKind(blocks, "meta_index_block")
            indexblock == OfKind(blocks, "index_block")
            recorded == RecordedHandles(blocks)
        IN /\ Len(index) = Len(data)
           /\ \A i \in 1..Len(index) : index[i].value = data[i].handle
           /\ Len(metaindex) = 1
           /\ Len(indexblock) = 1
           /\ FooterIn(appends).entries =
                  <<metaindex[1].handle, indexblock[1].handle>>
           /\ rep_.filter_block.present =>
                  /\ Len(filter) = 1
                  /\ Len(metaindex[1].entries) = 1
                  /\ metaindex[1].entries[1].value = filter[1].handle
           /\ \A n \in 1..Len(recorded) :
                  recorded[n][1] = FramedSizes(SubSeq(recorded, 1, n - 1))

\* a finished build with a filter and two data blocks or more, one of them
\* stored compressed
C7_Witness ==
    /\ FinishedOK
    /\ rep_.filter_block.present
    /\ Len(DataBlocksOf(appends)) >= 2
    /\ \E j \in 1..Len(appends) :
          appends[j].kind = "data_block" /\ appends[j].type = kSnappyCompression

(* C8 - Append order. The file never holds a data block after a meta       *)
(* block, nor two filter, metaindex or index blocks or footers; and in a   *)
(* build whose Finish returns OK it holds the data blocks, their keys in   *)
(* the order added, then the filter block, tagged uncompressed, if and     *)
(* only if there is a filter encoder, then the metaindex block, the index  *)
(* block, and the footer last, each block followed by its trailer.         *)
C8_AppendOrder ==
    LET payloads == Payloads
        ranks == [j \in 1..Len(payloads) |-> Rank(payloads[j].kind)]
    IN
    /\ \A j \in 1..(Len(ranks) - 1) :
          /\ ranks[j] <= ranks[j + 1]
          /\ ranks[j] >= 2 => ranks[j] < ranks[j + 1]
    /\ FinishedOK =>
          /\ {payloads[j].kind : j \in 1..Len(payloads)} \ {"data_block"} =
                 {"meta_index_block", "index_block", "footer"}
                     \cup (IF rep_.filter_block.present
                           THEN {"filter_block"} ELSE {})
          /\ HasFooter(appends)
          /\ \A j \in 1..Len(appends) :
                /\ appends[j].kind \notin {"trailer", "footer"} =>
                       Framed(appends, j)
                /\ appends[j].kind = "trailer" =>
                       j > 1 /\ appends[j - 1].kind \notin {"trailer", "footer"}
                /\ appends[j].kind = "filter_block" =>
                       /\ appends[j].type = kNoCompression
                       /\ appends[j + 1].type = kNoCompression
          /\ Concat(DataBlocksOf(appends)) = calls.adds

\* a finished build with a filter, Snappy in use, and two data blocks or
\* more of which one is stored compressed
C8_Witness ==
    /\ FinishedOK
    /\ rep_.filter_block.present
    /\ rep_.options.compression = kSnappyCompression
    /\ Len(DataBlocksOf(appends)) >= 2
    /\ \E j \in 1..Len(appends) :
          appends[j].kind = "trailer" /\ appends[j].type = kSnappyCompression

(* C9 - The status is sticky. From a state where status() is not OK, no    *)
(* call changes the status, the file, num_entries, last_key, offset,       *)
(* pending_index_entry or the index block, and Finish returns that status. *)
C9_StickyStatus ==
    [][~ok(rep_) =>
          /\ rep_'.status = rep_.status
          /\ rep_'.file.appends = rep_.file.appends
          /\ rep_'.num_entries = rep_.num_entries
          /\ rep_'.last_key = rep_.last_key
          /\ rep_'.offset = rep_.offset
          /\ rep_'.pending_index_entry = rep_.pending_index_entry
          /\ rep_'.index_block = rep_.index_block
          /\ (calls'.finished /\ ~calls.finished) =>
                 calls'.result = rep_.status]_vars

\* the Append of a second data block failed, an Add was made after that,
\* and Finish has returned the error
C9_Witness ==
    /\ ~ok(rep_)
    /\ Len(DataBlocksOf(appends)) = 1 /\ rep_.file.flushes = 1
    /\ rep_.num_entries = 2
    /\ Len(calls.adds) > rep_.num_entries
    /\ calls.finished /\ calls.result = rep_.status
    /\ calls.result.code = "IOError"

(* C10 - In a build whose Finish returns OK, NumEntries() is the number of *)
(* Add calls made and FileSize() is the length of the file.                *)
C10_NumEntriesAndFileSize ==
    FinishedOK =>
        /\ NumEntries(rep_) = Len(calls.adds)
        /\ FileSize(rep_) = SumSizes(appends)

\* a finished build of MaxKey pairs with a filter block
C10_Witness ==
    /\ FinishedOK
    /\ Len(calls.adds) = MaxKey
    /\ rep_.filter_block.present
    /\ FileSize(rep_) > kEncodedLength

----------------------------------------------------------------------------
(* WriteBlock on a block of any length whose compressed form has any       *)
(* length                                                                  *)

\* a block whose encoding has the length raw_len, BlockOverhead at least
BlockOfLength(raw_len) ==
    IF raw_len = BlockOverhead THEN <<>>
    ELSE <<Entry(1, 1, raw_len - BlockOverhead - 1)>>

InitCompress ==
    /\ \E compression \in {kNoCompression, kSnappyCompression},
          snappy \in BOOLEAN,
          raw_len \in BlockOverhead..MaxLen, length \in 0..MaxLen :
         /\ rep_ = [NewRep(Options(MaxLen, compression, "nullptr"))
                       EXCEPT !.data_block = BlockOfLength(raw_len)]
         /\ port = Port(snappy, length)
    /\ calls = NoCalls
    /\ iter = NoIterator
    /\ hist = NoHist

\* WriteBlock(&r->data_block, &r->pending_handle), as Flush calls it
DoWriteBlock ==
    /\ ok(rep_) /\ ~rep_.closed
    /\ hist.op = "none"
    /\ LET w == WriteBlock(rep_, "data_block", rep_.data_block)
       IN rep_' = [w.r EXCEPT !.pending_handle = w.handle]
    /\ hist' = [hist EXCEPT !.op = "WriteBlock",
                            !.target = CurrentSizeEstimate(rep_.data_block)]
    /\ UNCHANGED <<port, calls, iter>>

SpecCompress == InitCompress /\ [][DoWriteBlock]_vars

----------------------------------------------------------------------------
(* C12 - WriteBlock stores the block compressed, with tag 1, when the      *)
(* compression is snappy, the compressor succeeds and 8 * len(compressed)  *)
(* < 7 * len(raw), and stores it raw with tag 0 in every other case, and   *)
(* always when the compression is none; and the test the code makes,       *)
(* len(compressed) < len(raw) - len(raw) / 8 in integers, agrees with      *)
(* 8 * len(compressed) < 7 * len(raw) for all lengths from 0 on.           *)
C12_CompressionSelection ==
    /\ \A c \in 0..MaxLen, n \in 0..MaxLen :
          SavesEnough(c, n) <=> 8 * c < 7 * n
    /\ hist.op = "WriteBlock" =>
          LET raw_len == hist.target
              chosen == /\ rep_.options.compression = kSnappyCompression
                        /\ port.snappy
                        /\ 8 * port.length < 7 * raw_len
          IN /\ Len(appends) = 2
             /\ appends[1].kind = "data_block" /\ appends[2].kind = "trailer"
             /\ appends[1].entries = BlockOfLength(raw_len)
             /\ chosen =>
                   /\ appends[1].size = port.length
                   /\ appends[1].type = kSnappyCompression
                   /\ appends[2].type = kSnappyCompression
             /\ ~chosen =>
                   /\ appends[1].size = raw_len
                   /\ appends[1].type = kNoCompression
                   /\ appends[2].type = kNoCompression
             /\ rep_.pending_handle = [offset |-> 0, size |-> appends[1].size]

\* a block of a length that 8 does not divide, stored compressed, whose
\* compressed form is one byte over 7/8 of it rounded down
C12_Witness ==
    /\ hist.op = "WriteBlock"
    /\ hist.target % 8 # 0
    /\ port.length = (hist.target * 7) \div 8
    /\ appends[2].type = kSnappyCompression

----------------------------------------------------------------------------
(* C13 - ChangeOptions with a comparator other than the builder's returns  *)
(* InvalidArgument and leaves the whole builder as it was: its options,    *)
(* its index-block options, status, offset, num_entries, the file and all  *)
(* the rest, so that every later call finds the state it would have found  *)
(* without it. With the builder's comparator it returns OK, and after any  *)
(* ChangeOptions the index-block options have block_restart_interval = 1.  *)
C13_ChangeOptions ==
    [][/\ rep_.index_block_options.block_restart_interval = 1
       /\ calls'.ret.op = "ChangeOptions" =>
            /\ calls'.ret.comparator # rep_.options.comparator =>
                  /\ calls'.ret.status = InvalidArgument
                  /\ rep_' = rep_
            /\ calls'.ret.comparator = rep_.options.comparator =>
                  /\ calls'.ret.status = OK
                  /\ rep_'.options.comparator = rep_.options.comparator
                  /\ [rep_' EXCEPT !.options = rep_.options,
                                   !.index_block_options =
                                       rep_.index_block_options] = rep_
            /\ rep_'.index_block_options.block_restart_interval = 1]_vars

\* a ChangeOptions with another comparator has just been rejected in the
\* middle of a build, with a key in the data block, after a ChangeOptions
\* that dropped the filter policy had been accepted
C13_Witness ==
    /\ calls.ret.op = "ChangeOptions" /\ calls.ret.status = InvalidArgument
    /\ ~rep_.closed /\ rep_.data_block # <<>>
    /\ rep_.options.comparator = "bytewise"
    /\ rep_.options.block_size # 1
    /\ rep_.filter_block.present /\ rep_.options.filter_policy = "nullptr"
    /\ rep_.index_block_options.filter_policy = "nullptr"

----------------------------------------------------------------------------
(* C14 - closed goes from false to true once, in Finish or in Abandon, and *)
(* never back. Abandon appends nothing and leaves offset, num_entries,     *)
(* status and all but closed as they were; and once the builder is closed  *)
(* no call appends a byte to the file: Add, Flush, Finish and Abandon stop *)
(* at the assertion on closed.                                             *)
C14_Lifecycle ==
    [][/\ rep_.closed =>
            /\ rep_'.closed
            /\ rep_'.file = rep_.file
            /\ rep_'.offset = rep_.offset
       /\ (~rep_.closed /\ rep_'.closed) =>
            \/ calls'.finished
            \/ rep_'.crashed
            \/ /\ rep_' = [rep_ EXCEPT !.closed = TRUE]
               /\ rep_'.file.appends = rep_.file.appends
               /\ rep_'.offset = rep_.offset
               /\ rep_'.num_entries = rep_.num_entries
               /\ rep_'.status = rep_.status
       /\ calls'.finished => rep_'.closed]_vars

\* Abandon was called with keys in the data block, after a first block had
\* been written, and a later call has stopped at the assertion: the file
\* holds the first block and nothing else
C14_Witness ==
    /\ rep_.closed /\ ~calls.finished /\ rep_.crashed
    /\ ok(rep_) /\ rep_.data_block # <<>>
    /\ Len(appends) = 2
    /\ rep_.num_entries = Len(calls.adds)
    /\ rep_.offset = SumSizes(appends)

----------------------------------------------------------------------------
(* C15 - Flush on an empty data block changes nothing: it appends nothing, *)
(* writes no block and no index entry, leaves pending_index_entry, offset  *)
(* and status as they were, and calls neither the file's Flush nor the     *)
(* filter's StartBlock. So a Flush that follows a Flush changes nothing,   *)
(* and a build with such calls writes the file it writes without them.     *)
C15_FlushOnEmptyBlock ==
    [][calls'.ret.op = "Flush" =>
         /\ rep_.data_block = <<>> => rep_' = rep_
         /\ calls.ret.op = "Flush" => rep_' = rep_]_vars

\* with block_size 1 the first Add has written its block, and the Flush
\* called after it found the data block empty: the file was flushed once,
\* the filter was told of two blocks, one index entry is pending
C15_Witness ==
    /\ calls.ret.op = "Flush"
    /\ ok(rep_) /\ ~rep_.closed
    /\ rep_.options.block_size = 1 /\ rep_.num_entries = 1
    /\ rep_.data_block = <<>> /\ rep_.pending_index_entry
    /\ rep_.index_block = <<>>
    /\ Len(appends) = 2 /\ rep_.file.flushes = 1
    /\ rep_.filter_block.present /\ Len(rep_.filter_block.log) = 3

----------------------------------------------------------------------------
(* C16 - Between the calls of an open builder pending_index_entry is true  *)
(* if and only if a data block has been written, payload and trailer, and  *)
(* no Add has been accepted since: every key accepted is in a data block   *)
(* of the file. When it is true the data block is empty and               *)
(* pending_handle locates the data block written last; so Flush, which     *)
(* writes non-empty blocks only, never writes one while an entry is        *)
(* pending.                                                                *)
C16_PendingIndexEntry ==
    ~rep_.closed =>
        LET data == DataBlocksOf(appends)
        IN /\ rep_.pending_index_entry <=>
                 /\ data # <<>>
                 /\ rep_.num_entries = Len(Concat(data))
           /\ rep_.pending_index_entry =>
                 /\ rep_.data_block = <<>>
                 /\ EncodeTo(rep_.pending_handle) = data[Len(data)].handle

\* a second data block has been written and its index entry is pending,
\* the entry of the first block being in the index block
C16_Witness ==
    /\ ~rep_.closed /\ rep_.pending_index_entry
    /\ Len(DataBlocksOf(appends)) = 2
    /\ Len(rep_.index_block) = 1
    /\ rep_.pending_handle.offset > 0
    /\ rep_.index_block[1].value # EncodeTo(rep_.pending_handle)

----------------------------------------------------------------------------
\* the keys the filter was given, in the order of the AddKey calls
AddedKeys(log) ==
    LET adds == SelectSeq(log, LAMBDA c : c[1] = "AddKey")
    IN [j \in 1..Len(adds) |-> adds[j][2]]

\* the place in the filter's calls of AddKey(k)
AddKeyAt(log, k) == CHOOSE j \in 1..Len(log) : log[j] = <<"AddKey", k>>

\* the offset of the last StartBlock before the call at place j
StartBlockBefore(log, j) ==
    LET starts == {m \in 1..(j - 1) : log[m][1] = "StartBlock"}
    IN log[CHOOSE m \in starts : \A n \in starts : n <= m][2]

(* C17 - When there is a filter encoder, its first call is StartBlock(0);  *)
(* the keys it is given by AddKey are the keys Add has accepted, once each *)
(* in the order added; the call that follows the AddKey of the last key of *)
(* a data block written is StartBlock with the offset where that block and *)
(* its trailer end; and for every key, the last StartBlock before its      *)
(* AddKey has the offset at which the data block holding the key starts in *)
(* the file, or will start while the key is in the block being filled.     *)
C17_FilterProtocol ==
    rep_.filter_block.present =>
        LET log == rep_.filter_block.log
            data == DataBlocksOf(appends)
        IN /\ log # <<>> /\ log[1] = <<"StartBlock", 0>>
           /\ AddedKeys(log) =
                  [j \in 1..rep_.num_entries |-> calls.adds[j].key]
           /\ \A i \in 1..Len(data) :
                 LET entries == data[i].entries
                     last == AddKeyAt(log, entries[Len(entries)].key)
                 IN /\ \A j \in 1..Len(entries) :
                          StartBlockBefore(log, AddKeyAt(log, entries[j].key))
                              = data[i].handle[1]
                    /\ last < Len(log)
                    /\ log[last + 1] =
                          <<"StartBlock", data[i].handle[1] + data[i].handle[2]
                                              + kBlockTrailerSize>>
           /\ ok(rep_) =>
                 \A j \in 1..Len(rep_.data_block) :
                    StartBlockBefore(log, AddKeyAt(log, rep_.data_block[j].key))
                        = rep_.offset

\* a data block of two keys has been written and a third key is in the
\* block being filled: the filter has been told of two blocks, the second
\* at an offset above 0
C17_Witness ==
    /\ rep_.filter_block.present /\ ok(rep_) /\ ~rep_.closed
    /\ Len(DataBlocksOf(appends)) = 1
    /\ Len(DataBlocksOf(appends)[1].entries) = 2
    /\ Len(rep_.data_block) = 1
    /\ Len(rep_.filter_block.log) = 5
    /\ rep_.filter_block.log[4] = <<"StartBlock", rep_.offset>>
    /\ rep_.offset > 0

----------------------------------------------------------------------------
\* the blocks a forward run has made use of: those block_function was called
\* for during the run, and the first block when SeekToFirst found it held
BlocksOfRun(h) == h.loads + (IF h.held THEN 1 ELSE 0)

----------------------------------------------------------------------------
(* C19 - status() is the index iterator's status when that is not OK, else *)
(* the status of the data iterator held when there is one and its status   *)
(* is not OK, else the sticky status; and the sticky status is the first   *)
(* status not OK among those of the data iterators replaced or dropped. So *)
(* once block_function has returned a data iterator whose status is not OK *)
(* status() is not OK after every later call, though the traversal passes  *)
(* over that block as over an empty one.                                   *)
C19_ErrorsAreKept ==
    /\ ~iter.index_iter_.status.ok =>
           IterStatus(iter) = iter.index_iter_.status
    /\ (iter.index_iter_.status.ok /\ iter.data_iter_.iter # "nullptr"
           /\ ~iter.data_iter_.status.ok) =>
           IterStatus(iter) = iter.data_iter_.status
    /\ (iter.index_iter_.status.ok
           /\ (iter.data_iter_.iter = "nullptr" \/ iter.data_iter_.status.ok)) =>
           IterStatus(iter) = iter.status_
    /\ (iter.data_iter_.iter = "nullptr" \/ iter.data_iter_.status.ok) =>
           iter.status_ = iter.first_error
    /\ ~iter.first_error.ok => ~IterStatus(iter).ok

\* a traversal from SeekToFirst has passed over two unreadable blocks and
\* has yielded a key of a block after them: the iterator is Valid, on a
\* readable block, and status() is the Corruption of the first of the two
C19_Witness ==
    /\ hist.run = "forward" /\ Valid(iter)
    /\ iter.index_iter_.status.ok
    /\ iter.index_iter_.pos = 3
    /\ ~iter.arg_[1].status.ok /\ ~iter.arg_[2].status.ok
    /\ IterStatus(iter) = CorruptionAt(1)
    /\ iter.data_iter_.status.ok

----------------------------------------------------------------------------
\* every call the builder has made on the file, Append or Flush, succeeded
NoFileCallFailed(file) == file.ncalls = Len(file.appends) + file.flushes

(* C20 - A footer is in the file if and only if Finish has returned OK.     *)
(* When an Append or a Flush of the file has failed at any point of the     *)
(* build, in a data block, the filter block, the metaindex block, the index *)
(* block or the footer, the file holds no footer: a file that ends with a   *)
(* footer is never paired with a non-OK result of Finish, every block       *)
(* before a footer is followed by its trailer, and nothing is appended      *)
(* after a footer.                                                          *)
C20_FooterIffFinishOK ==
    /\ HasFooter(appends) <=> (calls.finished /\ calls.result.ok)
    /\ ~NoFileCallFailed(rep_.file) => ~HasFooter(appends)
    /\ ~ok(rep_) => ~HasFooter(appends)
    /\ \A j \in 1..Len(appends) :
          /\ appends[j].kind = "footer" => j = Len(appends)
          /\ (HasFooter(appends)
                 /\ appends[j].kind \notin {"trailer", "footer"}) =>
                 Framed(appends, j)

\* Finish has returned an IOError after the Append of the index block
\* failed: the file holds a data block and the metaindex block, each with
\* its trailer, and neither an index block nor a footer
C20_Witness ==
    /\ calls.finished /\ ~calls.result.ok
    /\ calls.result.code = "IOError"
    /\ appends # <<>> /\ ~HasFooter(appends)
    /\ Len(DataBlocksOf(appends)) >= 1
    /\ Len(appends) >= 2
    /\ appends[Len(appends) - 1].kind = "meta_index_block"
    /\ appends[Len(appends)].kind = "trailer"
    /\ ~NoFileCallFailed(rep_.file)

----------------------------------------------------------------------------
\* the entries of the metaindex block of a finished file
MetaindexEntries(blocks) ==
    LET metaindex == OfKind(blocks, "meta_index_block")
    IN IF metaindex = <<>> THEN <<>> ELSE metaindex[1].entries

(* C21 as stated - In every build in which Finish has returned OK, a filter *)
(* block is written and the metaindex block holds exactly one entry if and  *)
(* only if the builder was constructed with a filter policy, and the key of *)
(* that entry is "filter." followed by the name of the policy the filter    *)
(* encoder was constructed with, whatever calls of ChangeOptions with the   *)
(* same comparator and another or no filter policy were made.               *)
C21_FilterNaming ==
    FinishedOK =>
        LET blocks == ReadableBlocks(appends)
            filter == OfKind(blocks, "filter_block")
            entries == MetaindexEntries(blocks)
        IN /\ (Len(filter) = 1 /\ Len(entries) = 1)
                  <=> rep_.filter_block.present
           /\ ~rep_.filter_block.present =>
                  (filter = <<>> /\ entries = <<>>)
           /\ rep_.filter_block.present =>
                  entries[1].key = <<"filter.", rep_.filter_block.policy>>

\* a builder constructed with the policy "bloom" was given two keys, then
\* ChangeOptions with the policy "custom", and Finish has returned OK: the
\* filter block holds what the "bloom" encoder was fed, and the one entry of
\* the metaindex block has the key "filter.custom"
C21_Witness ==
    /\ FinishedOK
    /\ Len(calls.adds) = 2
    /\ rep_.filter_block.present /\ rep_.filter_block.policy = "bloom"
    /\ rep_.options.filter_policy = "custom"
    /\ LET blocks == ReadableBlocks(appends)
       IN /\ Len(OfKind(blocks, "filter_block")) = 1
          /\ OfKind(blocks, "filter_block")[1].entries = rep_.filter_block.log
          /\ Len(MetaindexEntries(blocks)) = 1
          /\ MetaindexEntries(blocks)[1].key = <<"filter.", "custom">>

----------------------------------------------------------------------------
\* the length of the payload at the end of the file whose trailer was not
\* appended, 0 when the file does not end with one
Untrailed(file_appends) ==
    IF file_appends # <<>>
       /\ file_appends[Len(file_appends)].kind \notin {"trailer", "footer"}
    THEN file_appends[Len(file_appends)].size
    ELSE 0

(* C11 as stated - In every reachable state of the builder offset equals   *)
(* the number of bytes appended to the file so far, and offset never       *)
(* decreases; also after an Append has failed, and when a block's payload  *)
(* was appended and the Append of its trailer failed.                      *)
C11_OffsetIsBytesAppended ==
    [][/\ rep_'.offset = SumSizes(rep_'.file.appends)
       /\ rep_'.offset >= rep_.offset]_vars

(* C11 - offset never decreases and never exceeds the number of bytes      *)
(* appended; it equals that number in every state whose status is OK, and  *)
(* after a failed Append it falls short of it by exactly the length of the *)
(* payload whose trailer was not appended, if the file ends with one.      *)
C11_OffsetWhileOK ==
    [][/\ rep_'.offset >= rep_.offset
       /\ rep_'.offset = SumSizes(rep_'.file.appends)
                             - Untrailed(rep_'.file.appends)
       /\ ok(rep_') => rep_'.offset = SumSizes(rep_'.file.appends)]_vars

\* the payload of a second data block was appended and the Append of its
\* trailer failed: offset is the end of the first block, and Finish has
\* returned the error
C11_Witness ==
    /\ ~ok(rep_) /\ rep_.status.code = "IOError"
    /\ Len(DataBlocksOf(appends)) = 1
    /\ appends[Len(appends)].kind = "data_block"
    /\ rep_.offset = appends[1].size + kBlockTrailerSize
    /\ rep_.offset < SumSizes(appends)
    /\ calls.finished /\ calls.result = rep_.status

====
